---- MODULE Spec2Model ----
(***************************************************************************)
(* A model of app.py, the Streamlit exam application: the bank loader      *)
(* (load_bank_from_upload and the sidebar fallback), the grading engine    *)
(* (check_numeric_answer, grade_exam) and the session/timer controller     *)
(* (the top-to-bottom script that Streamlit re-runs on every interaction). *)
(*                                                                         *)
(* Python values are modelled by what the code does with them:             *)
(*   - a str is a sequence of one-character strings;                       *)
(*   - a float is an IEEE-754 binary64 value, kept as an exact binary      *)
(*     significand (a sequence of bits, most significant first) and a      *)
(*     binary exponent, so that float(), -, abs and <= round and compare   *)
(*     as CPython does;                                                    *)
(*   - None, a str and a float are kept apart by a tag, since the code     *)
(*     tests for None and calls str() on whatever it holds.                *)
(***************************************************************************)
EXTENDS Integers, Sequences, FiniteSets, TLC

VARIABLES
    started,         \* ss.started
    submitted,       \* ss.submitted
    start_time,      \* ss.start_time, in seconds; NoTime is None
    answers,         \* ss.answers: (variant, qnum) -> the widget's value
    active_variant,  \* ss.active_variant
    v,               \* the variant picker's selection
    now,             \* datetime.now(), in seconds
    bank_df,         \* the bank in use, a sequence of rows
    results,         \* what the results section last computed
    warned,          \* the last run announced the automatic submission
    last,            \* the interaction that caused the last run
    picked,          \* history: the mcq keys the user chose an option for
                     \* since the last start
    up,              \* the file in the uploader
    load_error,      \* the st.error load_bank_from_upload showed
    uncaught         \* the last run ended in an uncaught exception

vars == <<started, submitted, start_time, answers, active_variant, v, now,
          bank_df, results, warned, last, picked, up, load_error, uncaught>>

\* ------------------------------------------------------------------------
\* Program constants (app.py, CONFIG)
\* ------------------------------------------------------------------------
TOTAL_QUESTIONS == 40

TOTAL_VARIANTS == 4

EXAM_DURATION_MIN == 100

\* ------------------------------------------------------------------------
\* Natural numbers of any size, as sequences of bits (most significant bit
\* first, no leading zero; <<>> is 0).  binary64 needs 53-bit significands.
\* ------------------------------------------------------------------------
LimbBits == 8

LimbBase == 2 ^ LimbBits

Strip(b) ==
    IF \A i \in 1..Len(b) : b[i] = 0 THEN <<>>
    ELSE LET first == CHOOSE i \in 1..Len(b) :
                          b[i] = 1 /\ \A j \in 1..(i - 1) : b[j] = 0
         IN  SubSeq(b, first, Len(b))

\* The bits of an int (ints are below 2^31).
NatBits(n) == Strip([i \in 1..31 |-> (n \div (2 ^ (31 - i))) % 2])

Zeros(k) == [i \in 1..k |-> 0]

ShiftLeft(b, k) == IF b = <<>> THEN <<>> ELSE b \o Zeros(k)

PadTo(b, n) == Zeros(n - Len(b)) \o b

\* The same number in limbs of LimbBits bits, n limbs, most significant first.
ToLimbs(b, n) ==
    LET p == PadTo(b, n * LimbBits)
    IN  [j \in 1..n |->
            LET o == (j - 1) * LimbBits
            IN  p[o + 1] * 128 + p[o + 2] * 64 + p[o + 3] * 32 + p[o + 4] * 16
                + p[o + 5] * 8 + p[o + 6] * 4 + p[o + 7] * 2 + p[o + 8]]

FromLimbs(l) ==
    Strip([i \in 1..(Len(l) * LimbBits) |->
              (l[((i - 1) \div LimbBits) + 1]
                   \div (2 ^ (LimbBits - 1 - ((i - 1) % LimbBits)))) % 2])

LimbCount(b) == (Len(b) + LimbBits - 1) \div LimbBits

\* floor(b / d) and b mod d for a small divisor d, by long division.
RECURSIVE DivStep(_, _, _, _, _)
DivStep(l, d, i, rem, q) ==
    IF i > Len(l) THEN [q |-> FromLimbs(q), r |-> rem]
    ELSE LET cur == LimbBase * rem + l[i]
         IN  DivStep(l, d, i + 1, cur % d, Append(q, cur \div d))

DivBits(b, d) == DivStep(ToLimbs(b, LimbCount(b)), d, 1, 0, <<>>)

\* a + b, limb by limb from the least significant; the carry comes out in front.
RECURSIVE AddStep(_, _, _, _, _)
AddStep(a, b, i, carry, acc) ==
    IF i = 0 THEN FromLimbs(<<carry>> \o acc)
    ELSE LET s == a[i] + b[i] + carry
         IN  AddStep(a, b, i - 1, s \div LimbBase, <<s % LimbBase>> \o acc)

AddBits(a, b) ==
    LET n == IF Len(a) > Len(b) THEN LimbCount(a) ELSE LimbCount(b)
    IN  AddStep(ToLimbs(a, n), ToLimbs(b, n), n, 0, <<>>)

\* a - b for a >= b.
RECURSIVE SubStep(_, _, _, _, _)
SubStep(a, b, i, borrow, acc) ==
    IF i = 0 THEN FromLimbs(acc)
    ELSE LET s == a[i] - b[i] - borrow
         IN  IF s < 0 THEN SubStep(a, b, i - 1, 1, <<s + LimbBase>> \o acc)
             ELSE SubStep(a, b, i - 1, 0, <<s>> \o acc)

SubBits(a, b) ==
    LET n == IF Len(a) > Len(b) THEN LimbCount(a) ELSE LimbCount(b)
    IN  SubStep(ToLimbs(a, n), ToLimbs(b, n), n, 0, <<>>)

\* a < b, a and b without leading zeros.
LessBits(a, b) ==
    IF Len(a) # Len(b) THEN Len(a) < Len(b)
    ELSE \E i \in 1..Len(a) :
             a[i] < b[i] /\ \A j \in 1..(i - 1) : a[j] = b[j]

\* ------------------------------------------------------------------------
\* binary64.  A float is [kind, neg, m, e]: kind "fin" is the number
\* (-1)^neg * m * 2^e with m a significand of at most 53 bits (54 only as
\* 1 followed by zeros, after a rounding carry); kind "inf" is an infinity
\* of sign neg; kind "nan" is a NaN.
\* ------------------------------------------------------------------------
MANT_DIG == 53

ParseShift == 70

FloatNaN == [kind |-> "nan", neg |-> FALSE, m |-> <<>>, e |-> 0]

FloatZero == [kind |-> "fin", neg |-> FALSE, m |-> <<>>, e |-> 0]

FloatInf(neg) == [kind |-> "inf", neg |-> neg, m |-> <<>>, e |-> 0]

HasOne(b, from) == \E i \in from..Len(b) : b[i] = 1

\* The first 53 bits of m, rounded away from zero or not.
Rounded(top, away, e) ==
    [m |-> IF away THEN AddBits(top, <<1>>) ELSE top, e |-> e]

\* Round the exact value m * 2^e (plus a positive remainder below one unit
\* of m when sticky) to 53 significant bits, round-half-to-even.
RoundNearestEven(m, e, sticky) ==
    IF Len(m) <= MANT_DIG THEN [m |-> m, e |-> e]
    ELSE Rounded(SubSeq(m, 1, MANT_DIG),
                 m[MANT_DIG + 1] = 1
                     /\ (sticky \/ HasOne(m, MANT_DIG + 2) \/ m[MANT_DIG] = 1),
                 e + (Len(m) - MANT_DIG))

Finite(neg, r) ==
    IF r.m = <<>> THEN FloatZero
    ELSE [kind |-> "fin", neg |-> neg, m |-> r.m, e |-> r.e]

RoundQuotient(qr) == RoundNearestEven(qr.q, 0 - ParseShift, qr.r # 0)

\* The float nearest to the decimal n / d (n >= 0, d a power of ten): what
\* float() gives for a decimal literal and what round(x, 2) returns.
FloatOfRatio(n, d) ==
    Finite(FALSE, RoundQuotient(DivBits(ShiftLeft(NatBits(n), ParseShift), d)))

MinInt(a, b) == IF a < b THEN a ELSE b

\* |x| < |y| for finite x and y, compared exactly.
MagLess(x, y) ==
    IF y.m = <<>> THEN FALSE
    ELSE IF x.m = <<>> THEN TRUE
    ELSE LET lo == MinInt(x.e, y.e)
         IN  LessBits(ShiftLeft(x.m, x.e - lo), ShiftLeft(y.m, y.e - lo))

\* x <= y on floats; any comparison with a NaN is False.
FloatLeq(x, y) ==
    IF x.kind = "nan" \/ y.kind = "nan" THEN FALSE
    ELSE IF x.kind = "inf" THEN x.neg \/ (y.kind = "inf" /\ ~y.neg)
    ELSE IF y.kind = "inf" THEN ~y.neg
    ELSE IF x.m = <<>> /\ y.m = <<>> THEN TRUE
    ELSE IF x.neg /\ ~y.neg THEN TRUE
    ELSE IF ~x.neg /\ y.neg THEN FALSE
    ELSE IF x.neg THEN ~MagLess(x, y)
    ELSE ~MagLess(y, x)

\* a - b or a + b on aligned significands, exactly: the magnitude of x - y.
ExactDiff(a, b, add) ==
    IF add THEN AddBits(a, b)
    ELSE IF LessBits(a, b) THEN SubBits(b, a)
    ELSE SubBits(a, b)

SubAligned(x, y, a, b, lo) ==
    Finite(IF x.neg = y.neg /\ LessBits(a, b) THEN ~x.neg ELSE x.neg,
           RoundNearestEven(ExactDiff(a, b, x.neg # y.neg), lo, FALSE))

\* x - y, correctly rounded.
FloatSub(x, y) ==
    IF x.kind = "nan" \/ y.kind = "nan" THEN FloatNaN
    ELSE IF x.kind = "inf"
    THEN IF y.kind = "inf" /\ y.neg = x.neg THEN FloatNaN ELSE x
    ELSE IF y.kind = "inf" THEN FloatInf(~y.neg)
    ELSE IF y.m = <<>> THEN x
    ELSE IF x.m = <<>> THEN [y EXCEPT !.neg = ~y.neg]
    ELSE SubAligned(x, y,
                    ShiftLeft(x.m, x.e - MinInt(x.e, y.e)),
                    ShiftLeft(y.m, y.e - MinInt(x.e, y.e)),
                    MinInt(x.e, y.e))

FloatAbs(x) == [x EXCEPT !.neg = FALSE]

\* ------------------------------------------------------------------------
\* Python values.  t is the type: "None", "str" (s, its characters),
\* "float" (the float nearest to the decimal n / d), "nan" (a NaN float
\* object, such as pandas yields for a missing cell) and "np.nan" (the one
\* object numpy exports under that name, also a NaN).
\* ------------------------------------------------------------------------
PyNone == [t |-> "None", s |-> <<>>, n |-> 0, d |-> 1]

PyStr(s) == [t |-> "str", s |-> s, n |-> 0, d |-> 1]

PyNum(n, d) == [t |-> "float", s |-> <<>>, n |-> n, d |-> d]

CellNaN == [t |-> "nan", s |-> <<>>, n |-> 0, d |-> 1]

NpNan == [t |-> "np.nan", s |-> <<>>, n |-> 0, d |-> 1]

\* str(x), for the values the code applies it to: None and str.
Str(x) == IF x.t = "None" THEN <<"N", "o", "n", "e">> ELSE x.s

UpperChar(c) ==
    CASE c = "a" -> "A" [] c = "b" -> "B" [] c = "c" -> "C" [] c = "d" -> "D"
      [] c = "e" -> "E" [] c = "f" -> "F" [] c = "g" -> "G" [] c = "h" -> "H"
      [] c = "i" -> "I" [] c = "j" -> "J" [] c = "k" -> "K" [] c = "l" -> "L"
      [] c = "m" -> "M" [] c = "n" -> "N" [] c = "o" -> "O" [] c = "p" -> "P"
      [] c = "q" -> "Q" [] c = "r" -> "R" [] c = "s" -> "S" [] c = "t" -> "T"
      [] c = "u" -> "U" [] c = "v" -> "V" [] c = "w" -> "W" [] c = "x" -> "X"
      [] c = "y" -> "Y" [] c = "z" -> "Z" [] OTHER -> c

LowerChar(c) ==
    CASE c = "A" -> "a" [] c = "B" -> "b" [] c = "C" -> "c" [] c = "D" -> "d"
      [] c = "E" -> "e" [] c = "F" -> "f" [] c = "G" -> "g" [] c = "H" -> "h"
      [] c = "I" -> "i" [] c = "J" -> "j" [] c = "K" -> "k" [] c = "L" -> "l"
      [] c = "M" -> "m" [] c = "N" -> "n" [] c = "O" -> "o" [] c = "P" -> "p"
      [] c = "Q" -> "q" [] c = "R" -> "r" [] c = "S" -> "s" [] c = "T" -> "t"
      [] c = "U" -> "u" [] c = "V" -> "v" [] c = "W" -> "w" [] c = "X" -> "x"
      [] c = "Y" -> "y" [] c = "Z" -> "z" [] OTHER -> c

Upper(s) == [i \in 1..Len(s) |-> UpperChar(s[i])]

Lower(s) == [i \in 1..Len(s) |-> LowerChar(s[i])]

\* s.replace(',', '.')
ReplaceComma(s) == [i \in 1..Len(s) |-> IF s[i] = "," THEN "." ELSE s[i]]

\* s.strip()
StripSpace(s) ==
    IF \A i \in 1..Len(s) : s[i] = " " THEN <<>>
    ELSE LET lo == CHOOSE i \in 1..Len(s) :
                       s[i] # " " /\ \A j \in 1..(i - 1) : s[j] = " "
             hi == CHOOSE i \in 1..Len(s) :
                       s[i] # " " /\ \A j \in (i + 1)..Len(s) : s[j] = " "
         IN  SubSeq(s, lo, hi)

EndsWith(s, suffix) ==
    /\ Len(s) >= Len(suffix)
    /\ SubSeq(s, Len(s) - Len(suffix) + 1, Len(s)) = suffix

Digits == {"0", "1", "2", "3", "4", "5", "6", "7", "8", "9"}

DigitValue(c) ==
    CASE c = "0" -> 0 [] c = "1" -> 1 [] c = "2" -> 2 [] c = "3" -> 3
      [] c = "4" -> 4 [] c = "5" -> 5 [] c = "6" -> 6 [] c = "7" -> 7
      [] c = "8" -> 8 [] c = "9" -> 9

RECURSIVE DigitsValue(_)
DigitsValue(s) ==
    IF s = <<>> THEN 0
    ELSE 10 * DigitsValue(SubSeq(s, 1, Len(s) - 1)) + DigitValue(s[Len(s)])

FloatRaise == [ok |-> FALSE, val |-> FloatNaN]

FloatOk(f) == [ok |-> TRUE, val |-> f]

Signed(f, neg) == [f EXCEPT !.neg = neg]

\* The decimal digits ip . fp, as a float.
FloatOfDigits(ip, fp, neg) ==
    IF /\ Len(ip) + Len(fp) >= 1
       /\ \A i \in 1..Len(ip) : ip[i] \in Digits
       /\ \A i \in 1..Len(fp) : fp[i] \in Digits
    THEN FloatOk(Signed(FloatOfRatio(DigitsValue(ip \o fp), 10 ^ Len(fp)), neg))
    ELSE FloatRaise

FirstDot(body) ==
    IF \A i \in 1..Len(body) : body[i] # "." THEN Len(body) + 1
    ELSE CHOOSE i \in 1..Len(body) :
             body[i] = "." /\ \A j \in 1..(i - 1) : body[j] # "."

FloatOfBody(body, neg) ==
    IF Lower(body) = <<"n", "a", "n">> THEN FloatOk(FloatNaN)
    ELSE IF Lower(body) = <<"i", "n", "f">>
            \/ Lower(body) = <<"i", "n", "f", "i", "n", "i", "t", "y">>
    THEN FloatOk(FloatInf(neg))
    ELSE FloatOfDigits(SubSeq(body, 1, FirstDot(body) - 1),
                       SubSeq(body, FirstDot(body) + 1, Len(body)), neg)

FloatOfStripped(t) ==
    IF t # <<>> /\ t[1] \in {"+", "-"} THEN FloatOfBody(Tail(t), t[1] = "-")
    ELSE FloatOfBody(t, FALSE)

\* float(s) for a str: surrounding whitespace dropped, an optional sign,
\* then nan / inf / infinity in any case, or decimal digits with at most
\* one point and at least one digit.  Anything else raises ValueError.
\* (Exponents and digit-group underscores are not in the modelled inputs.)
FloatOfStr(s) == FloatOfStripped(StripSpace(s))

\* float(x): of a float, itself; of a str, parsed; of None, TypeError.
Float(x) ==
    CASE x.t = "float" -> FloatOk(FloatOfRatio(x.n, x.d))
      [] x.t = "nan" -> FloatOk(FloatNaN)
      [] x.t = "np.nan" -> FloatOk(FloatNaN)
      [] x.t = "str" -> FloatOfStr(x.s)
      [] OTHER -> FloatRaise

\* x in (None, "", np.nan): Python's "in" holds for an element that is the
\* object itself or equal to it; a NaN equals nothing, itself included, so
\* only the np.nan object is found.
InBlankTuple(x) ==
    \/ x.t = "None"
    \/ x.t = "str" /\ x.s = <<>>
    \/ x.t = "np.nan"

\* ------------------------------------------------------------------------
\* Grading engine
\* ------------------------------------------------------------------------
\* abs(u - c) <= tol, or False from the except clause when a float() raised
WithinTolerance(u, c, tol) ==
    IF ~u.ok \/ ~c.ok \/ ~tol.ok THEN FALSE
    ELSE FloatLeq(FloatAbs(FloatSub(u.val, c.val)), tol.val)

check_numeric_answer(user_text, correct_value, tolerance) ==
    IF user_text.t = "None" \/ StripSpace(Str(user_text)) = <<>> THEN FALSE
    ELSE WithinTolerance(FloatOfStr(ReplaceComma(Str(user_text))),
                         Float(correct_value),
                         IF ~InBlankTuple(tolerance) THEN Float(tolerance)
                         ELSE FloatOk(FloatZero))

\* answers.get(key, None)
AnswersGet(answers_, key) ==
    IF key \in DOMAIN answers_ THEN answers_[key] ELSE PyNone

mcq == <<"m", "c", "q">>

num == <<"n", "u", "m">>

\* The values the model draws numeric answers, stored correct values and
\* tolerances from.  check_numeric_answer is tabulated over them once, so
\* that grading a row is a lookup; the table is check_numeric_answer itself.
NumericTexts ==
    { <<>>, <<"a", "b", "c">>,
      <<"0", ".", "0", "7">>, <<" ", "0", ",", "0", "7">>, <<"0", ".", "0", "8">>,
      <<"1", "3", ".", "2">>, <<"1", "3", ",", "2", "0">>, <<"1", "3", ".", "2", "1">>,
      <<"1", "1", "8", ".", "7", "6">>, <<"1", "1", "3", ".", "1">> }

AnswerValues ==
    {PyNone} \cup {PyStr(x) : x \in NumericTexts}
             \cup {PyStr(<<x>>) : x \in {"A", "B", "C", "D", "b"}}

CorrectValues ==
    { PyNum(1, 100), PyNum(1257, 100), PyNum(11310, 100), PyNum(15394, 100),
      PyNum(20106, 100), PyNum(31416, 100), PyNum(38013, 100) }

ToleranceValues ==
    { PyNone, PyStr(<<>>), CellNaN, NpNan, PyNum(6, 100), PyNum(63, 100),
      PyNum(566, 100), PyNum(770, 100), PyNum(1005, 100), PyNum(1571, 100),
      PyNum(1901, 100) }

NumericOK ==
    [a \in AnswerValues, c \in CorrectValues, t \in ToleranceValues |->
        check_numeric_answer(a, c, t)]

\* ok, for one row and the answer found for it
IsCorrect(row, ans) ==
    IF Lower(row.type) = mcq
    THEN Upper(Str(ans)) = Upper(Str(row.correct))
    ELSE NumericOK[ans, row.correct, row.tolerance]

\* the detail row with s = float(row.score) whatever ok is
DetailAlwaysScored(row, ans, ok) ==
    [variant |-> row.variant, qnum |-> row.qnum, type |-> row.type,
     topic |-> row.topic, difficulty |-> row.difficulty,
     correct |-> row.correct, your |-> ans, is_correct |-> ok,
     score |-> row.score, max_score |-> row.score]

Detail(row, ans, ok) ==
    [variant |-> row.variant, qnum |-> row.qnum, type |-> row.type,
     topic |-> row.topic, difficulty |-> row.difficulty,
     correct |-> row.correct, your |-> ans, is_correct |-> ok,
     score |-> IF ok THEN row.score ELSE 0, max_score |-> row.score]

\* One pass of grade_exam's loop: the detail row of one bank row.
GradeRow(row, answers_) ==
    Detail(row, AnswersGet(answers_, <<row.variant, row.qnum>>),
           IsCorrect(row, AnswersGet(answers_, <<row.variant, row.qnum>>)))

RECURSIVE SumField(_, _, _)
SumField(rows, i, field) ==
    IF i = 0 THEN 0 ELSE SumField(rows, i - 1, field) + rows[i][field]

\* the totals with max_total += s in place of max_total += float(row.score)
TotalsMaxOfAwarded(details) ==
    [total     |-> SumField(details, Len(details), "score"),
     max_total |-> SumField(details, Len(details), "score"),
     details   |-> details]

Totals(details) ==
    [total     |-> SumField(details, Len(details), "score"),
     max_total |-> SumField(details, Len(details), "max_score"),
     details   |-> details]

\* grade_exam(bank, answers): (total, max_total, details).  Scores are small
\* whole numbers, on which float addition is exact.
grade_exam(bank, answers_) ==
    Totals([i \in 1..Len(bank) |-> GradeRow(bank[i], answers_)])

\* ------------------------------------------------------------------------
\* The demo bank.  generate_demo_bank seeds Python's generator with 12 and
\* draws, per question, the letter the correct option lands on (odd qnum)
\* or the radius r (even qnum).  DemoDraws holds those draws for the first
\* questions of each variant; the model's bank is the first BankQuestions
\* questions of the first BankVariants variants.
\* ------------------------------------------------------------------------
BankVariants == 2

BankQuestions == 2

DemoDraws ==
    << << "C", 2, "B", 10, "B", 7 >>,
       << "A", 10, "D", 8, "B", 10 >>,
       << "A", 11, "A", 8, "C", 10 >>,
       << "B", 11, "A", 7, "C", 11 >> >>

topics == <<"Algebra", "Function/Graph", "Geometry", "Probability/Statistics">>

difficulties == <<"Easy", "Medium", "Hard">>

\* round(x, 2) of x = n / 10000, in hundredths; no draw above is a tie
\* (3.1416 * r * r is 31416 * r * r / 10000, and 0.05 * area is
\* 5 * (100 * area) / 10000).
Round2(n) == (n + 50) \div 100

DemoRow(vv, q) ==
    LET area == Round2(31416 * DemoDraws[vv][q] * DemoDraws[vv][q])
    IN  IF q % 2 = 1
        THEN [variant |-> vv, qnum |-> q, type |-> mcq,
              options |-> <<"A", "B", "C", "D">>,
              correct |-> PyStr(<<DemoDraws[vv][q]>>), score |-> 1,
              topic |-> topics[((q - 1) % Len(topics)) + 1],
              difficulty |-> difficulties[(q % 3) + 1],
              tolerance |-> PyStr(<<>>)]
        ELSE [variant |-> vv, qnum |-> q, type |-> num,
              options |-> <<>>,
              correct |-> PyNum(area, 100), score |-> 1,
              topic |-> topics[((q - 1) % Len(topics)) + 1],
              difficulty |-> difficulties[(q % 3) + 1],
              tolerance |-> PyNum(Round2(5 * area), 100)]

generate_demo_bank ==
    LET nv == MinInt(TOTAL_VARIANTS, BankVariants)
        nq == MinInt(TOTAL_QUESTIONS, BankQuestions)
    IN  [i \in 1..(nv * nq) |-> DemoRow(((i - 1) \div nq) + 1, ((i - 1) % nq) + 1)]

\* ------------------------------------------------------------------------
\* Session / timer controller: one run of the script
\* ------------------------------------------------------------------------
NoTime == 0 - 1

NoAnswers == [k \in {} |-> PyNone]

NoResults == [shown |-> FALSE, total |-> 0, max_total |-> 0, details |-> <<>>]

NoEdit == [key |-> <<0, 0>>, val |-> PyNone]

\* timedelta(minutes=EXAM_DURATION_MIN), in seconds
ExamDuration == EXAM_DURATION_MIN * 60

\* sorted(bank_df['variant'].unique().tolist())
Variants(bank) == {bank[i].variant : i \in 1..Len(bank)}

RECURSIVE SortByQnum(_)
SortByQnum(rows) ==
    IF rows = <<>> THEN <<>>
    ELSE LET i == CHOOSE i \in 1..Len(rows) :
                      \A j \in 1..Len(rows) : rows[i].qnum <= rows[j].qnum
             rest == [k \in 1..(Len(rows) - 1) |->
                         IF k < i THEN rows[k] ELSE rows[k + 1]]
         IN  <<rows[i]>> \o SortByQnum(rest)

\* bank_df[bank_df['variant'] == v].sort_values('qnum')
variant_df(bank, pick) ==
    LET OfPick(row) == row.variant = pick
    IN  SortByQnum(SelectSeq(bank, OfPick))

\* the start/restart button is on the page
StartShown(ss, pick) == ~ss.started \/ ss.active_variant # pick

\* the save and the submit button are on the page
SubmitShown(ss) == ss.started /\ ~ss.submitted

\* remain = max(timedelta(minutes=EXAM_DURATION_MIN) - elapsed, 0)
Remain(ss, t) ==
    LET left == ExamDuration - (t - ss.start_time)
    IN  IF left > 0 THEN left ELSE 0

\* remain < 0 in place of remain <= 0: a remainder clamped at 0 is never up
TimeIsUpStrict(ss, t) == Remain(ss, t) < 0

TimeIsUp(ss, t) == Remain(ss, t) <= 0

\* the disabled flag without its "or ss.submitted"
DisabledUnlessSubmitted(ss, pick) ==
    ~ss.started \/ ss.active_variant # pick

\* the disabled flag without its "or (ss.active_variant != v)"
DisabledAnyVariant(ss, pick) ==
    ~ss.started \/ ss.submitted

\* render_question: the widgets' disabled flag
Disabled(ss, pick) ==
    ~ss.started \/ ss.submitted \/ ss.active_variant # pick

SetAnswer(answers_, key, val) ==
    [k \in DOMAIN answers_ \cup {key} |-> IF k = key THEN val ELSE answers_[k]]

\* render_question(row): the answer map after the row's widget is drawn.
\* A widget the user did not just change returns what it showed before,
\* which is what index= / value= compute from the stored answer.
render_question(ss, pick, edit, row, answers_) ==
    LET q_key    == <<row.variant, row.qnum>>
        disabled == Disabled(ss, pick)
        prev     == AnswersGet(answers_, q_key)
    IN  IF Lower(row.type) = mcq
        THEN LET options   == row.options
                 found     == {i \in 1..Len(options) : PyStr(<<options[i]>>) = prev}
                 sel_index == IF found # {} THEN CHOOSE i \in found : TRUE ELSE 1
                 choice    == IF edit.key = q_key THEN edit.val
                              ELSE PyStr(<<options[sel_index]>>)
             IN  IF options = <<>> THEN answers_
                 ELSE IF ~disabled THEN SetAnswer(answers_, q_key, choice)
                 ELSE answers_
        ELSE LET val == IF edit.key = q_key THEN edit.val
                        ELSE IF prev.t # "None" /\ prev # PyStr(<<"N", "o", "n", "e">>)
                        THEN PyStr(Str(prev))
                        ELSE PyStr(<<>>)
             IN  IF ~disabled THEN SetAnswer(answers_, q_key, val) ELSE answers_

\* for _, row in variant_df.iterrows(): render_question(row)
RECURSIVE RenderRows(_, _, _, _, _)
RenderRows(ss, pick, edit, rows, i) ==
    IF i = 0 THEN ss.answers
    ELSE render_question(ss, pick, edit, rows[i],
                         RenderRows(ss, pick, edit, rows, i - 1))

Shown(g) ==
    [shown |-> TRUE, total |-> g.total, max_total |-> g.max_total,
     details |-> g.details]

\* The results section.
Results(ss, rows) ==
    IF ss.submitted /\ ss.started THEN Shown(grade_exam(rows, ss.answers))
    ELSE NoResults

\* The controls of one run at time t: the session they leave, whether they
\* ended the run with st.rerun(), and whether the automatic submission was
\* announced.  Only a button that is on the page can have been clicked.
Controls(ss, pick, click, t) ==
    IF StartShown(ss, pick) /\ click = "start"
    THEN [ss |-> [started |-> TRUE, submitted |-> FALSE, start_time |-> t,
                  answers |-> NoAnswers, active_variant |-> pick],
          rerun |-> TRUE, warned |-> FALSE]
    ELSE IF SubmitShown(ss) /\ click = "submit"
    THEN [ss |-> [ss EXCEPT !.submitted = TRUE], rerun |-> TRUE,
          warned |-> FALSE]
    ELSE IF ss.started /\ TimeIsUp(ss, t) /\ ~ss.submitted
    THEN [ss |-> [ss EXCEPT !.submitted = TRUE], rerun |-> TRUE,
          warned |-> TRUE]
    ELSE [ss |-> ss, rerun |-> FALSE, warned |-> FALSE]

\* The run st.rerun() starts: the script again, with no button clicked.
Rerun(first, pick, t) ==
    IF first.rerun
    THEN [Controls(first.ss, pick, "none", t) EXCEPT !.warned = first.warned]
    ELSE first

\* The question column.
Draw(ss, rows, pick, edit) ==
    IF ss.started
    THEN [ss EXCEPT !.answers = RenderRows(ss, pick, edit, rows, Len(rows))]
    ELSE ss

Page(done, rows, w) ==
    [ss |-> done, results |-> Results(done, rows), warned |-> w]

Finish(c, rows, pick, edit) ==
    Page(Draw(c.ss, rows, pick, edit), rows, c.warned)

\* One interaction at time t with picker selection pick, the button clicked
\* (if any) and the widget edited (if any): the script runs, and st.rerun()
\* stops the run and starts the script again at once with no button
\* clicked.  The run that reaches the end draws the questions and the
\* results.  (A second run never asks for a third: after a start no time
\* has passed, and a submitted session has no timer check left to fire.)
Script(ss, bank, pick, click, edit, t) ==
    Finish(Rerun(Controls(ss, pick, click, t), pick, t),
           variant_df(bank, pick), pick, edit)

\* ------------------------------------------------------------------------
\* Bank loader.  An upload is its file name, whether pd.read_csv /
\* pd.read_json can read it, the columns of the table read, and the cells
\* of the variant and qnum columns (the table has one row).
\* ------------------------------------------------------------------------
required == <<"variant", "qnum", "type", "question", "correct", "score">>

IntRaise == [ok |-> FALSE, val |-> 0]

IntOk(n) == [ok |-> TRUE, val |-> n]

IntOfDigits(body, neg) ==
    IF body # <<>> /\ \A i \in 1..Len(body) : body[i] \in Digits
    THEN IntOk(IF neg THEN 0 - DigitsValue(body) ELSE DigitsValue(body))
    ELSE IntRaise

IntOfStripped(t) ==
    IF t # <<>> /\ t[1] \in {"+", "-"} THEN IntOfDigits(Tail(t), t[1] = "-")
    ELSE IntOfDigits(t, FALSE)

\* One cell under astype(int): a float is truncated, a NaN raises, a str
\* goes through int(), None raises.
AsInt(x) ==
    CASE x.t = "float" -> IntOk(x.n \div x.d)
      [] x.t = "str" -> IntOfStripped(StripSpace(x.s))
      [] OTHER -> IntRaise

NoFrame == [df |-> FALSE, error |-> "none", raised |-> FALSE,
            variant |-> 0, qnum |-> 0]

Missing(columns) ==
    LET Absent(c) == c \notin columns
    IN  SelectSeq(required, Absent)

\* load_bank_from_upload(upload): df says a DataFrame came back (else
\* None), error is the st.error shown, raised that an exception left the
\* function.
load_bank_from_upload(upload) ==
    IF ~upload.present THEN NoFrame
    ELSE IF ~EndsWith(Lower(upload.name), <<".", "c", "s", "v">>)
            /\ ~EndsWith(Lower(upload.name), <<".", "j", "s", "o", "n">>)
    THEN [NoFrame EXCEPT !.error = "extension"]
    ELSE IF ~upload.parses THEN [NoFrame EXCEPT !.error = "read"]
    ELSE IF Missing(upload.columns) # <<>>
    THEN [NoFrame EXCEPT !.error = "missing"]
    ELSE IF ~AsInt(upload.variant).ok \/ ~AsInt(upload.qnum).ok
    THEN [NoFrame EXCEPT !.raised = TRUE]
    ELSE [df |-> TRUE, error |-> "none", raised |-> FALSE,
          variant |-> AsInt(upload.variant).val,
          qnum |-> AsInt(upload.qnum).val]

\* the uploaded table's one row, variant and qnum coerced
ImportedBank(frame) ==
    << [variant |-> frame.variant, qnum |-> frame.qnum, type |-> mcq,
        options |-> <<"A", "B">>, correct |-> PyStr(<<"B">>), score |-> 1,
        topic |-> "", difficulty |-> "", tolerance |-> CellNaN] >>

\* The sidebar: bank_df is the loaded bank, or the demo bank when the
\* loader returned None.  An exception out of the loader ends the run
\* before bank_df is bound.
Sidebar(frame) ==
    IF frame.raised THEN [bank |-> <<>>, uncaught |-> TRUE, error |-> frame.error]
    ELSE IF ~frame.df
    THEN [bank |-> generate_demo_bank, uncaught |-> FALSE, error |-> frame.error]
    ELSE [bank |-> ImportedBank(frame), uncaught |-> FALSE, error |-> frame.error]

\* ------------------------------------------------------------------------
\* The session: one action per interaction, each a whole run of the script
\* ------------------------------------------------------------------------
MaxTicks == 3

\* the clock moves in half exam durations
ClockStep == ExamDuration \div 2

\* what the user types into a numeric question's text box
TextInputs == { <<>>, <<"a", "b", "c">>, <<"1", "3", ".", "2">> }

Session ==
    [started |-> started, submitted |-> submitted, start_time |-> start_time,
     answers |-> answers, active_variant |-> active_variant]

NoUpload ==
    [present |-> FALSE, name |-> <<>>, parses |-> FALSE, columns |-> {},
     variant |-> PyNone, qnum |-> PyNone]

Init ==
    /\ started = FALSE
    /\ submitted = FALSE
    /\ start_time = NoTime
    /\ answers = NoAnswers
    /\ active_variant = 1
    /\ bank_df = generate_demo_bank
    /\ v = 1
    /\ now = 0
    /\ results = NoResults
    /\ warned = FALSE
    /\ last = "load"
    /\ picked = {}
    /\ up = NoUpload
    /\ load_error = "none"
    /\ uncaught = FALSE

\* The state a run of the script leaves behind.
Left(out, pick, kind) ==
    /\ started' = out.ss.started
    /\ submitted' = out.ss.submitted
    /\ start_time' = out.ss.start_time
    /\ answers' = out.ss.answers
    /\ active_variant' = out.ss.active_variant
    /\ results' = out.results
    /\ warned' = out.warned
    /\ v' = pick
    /\ last' = kind
    /\ UNCHANGED <<now, bank_df, up, load_error, uncaught>>

\* The interaction kind runs the script.
Ran(pick, click, edit, kind) ==
    Left(Script(Session, bank_df, pick, click, edit, now), pick, kind)

\* Time passes; nothing is evaluated.
Tick ==
    /\ now + ClockStep <= MaxTicks * ClockStep
    /\ now' = now + ClockStep
    /\ UNCHANGED <<started, submitted, start_time, answers, active_variant, v,
                   bank_df, results, warned, last, picked, up, load_error,
                   uncaught>>

\* The user picks another variant in the selectbox.
SelectVariant ==
    \E w \in Variants(bank_df) :
        /\ w # v
        /\ Ran(w, "none", NoEdit, "select")
        /\ UNCHANGED picked

\* The start/restart button.
StartClick ==
    /\ StartShown(Session, v)
    /\ Ran(v, "start", NoEdit, "start")
    /\ picked' = {}

\* The save button: a toast, and the run goes on.
SaveClick ==
    /\ SubmitShown(Session)
    /\ Ran(v, "save", NoEdit, "save")
    /\ UNCHANGED picked

\* The submit button.
SubmitClick ==
    /\ SubmitShown(Session)
    /\ Ran(v, "submit", NoEdit, "submit")
    /\ UNCHANGED picked

\* A navigation button of the progress panel: a run with nothing changed.
NavClick ==
    /\ started
    /\ variant_df(bank_df, v) # <<>>
    /\ Ran(v, "nav", NoEdit, "nav")
    /\ UNCHANGED picked

\* The user chooses an option of an enabled radio.
AnswerMcq ==
    \E i \in 1..Len(bank_df) : \E letter \in {"A", "B", "C", "D"} :
        LET row == bank_df[i]
            key == <<row.variant, row.qnum>>
        IN  /\ started
            /\ row.variant = v
            /\ Lower(row.type) = mcq
            /\ \E k \in 1..Len(row.options) : row.options[k] = letter
            /\ ~Disabled(Session, v)
            /\ AnswersGet(answers, key) # PyStr(<<letter>>)
            /\ Ran(v, "none", [key |-> key, val |-> PyStr(<<letter>>)], "answer")
            /\ picked' = picked \cup {key}

\* The user changes the text of an enabled numeric input.
AnswerNum ==
    \E i \in 1..Len(bank_df) : \E text \in TextInputs :
        LET row == bank_df[i]
            key == <<row.variant, row.qnum>>
        IN  /\ started
            /\ row.variant = v
            /\ Lower(row.type) # mcq
            /\ ~Disabled(Session, v)
            /\ AnswersGet(answers, key) # PyStr(text)
            /\ Ran(v, "none", [key |-> key, val |-> PyStr(text)], "answer")
            /\ UNCHANGED picked

Next ==
    \/ Tick
    \/ SelectVariant
    \/ StartClick
    \/ SaveClick
    \/ SubmitClick
    \/ NavClick
    \/ AnswerMcq
    \/ AnswerNum

Spec == Init /\ [][Next]_vars

\* ------------------------------------------------------------------------
\* The grading engine on its own: grade_exam applied to any bank of at most
\* MaxRows rows and any answer map over its keys
\* ------------------------------------------------------------------------
MaxRows == 2

RowKinds ==
    { [type |-> mcq, correct |-> PyStr(<<"B">>), score |-> 1,
       tolerance |-> PyStr(<<>>)],
      [type |-> <<"M", "C", "Q">>, correct |-> PyStr(<<"b">>), score |-> 2,
       tolerance |-> CellNaN],
      [type |-> num, correct |-> PyNum(1, 100), score |-> 1,
       tolerance |-> PyNum(6, 100)],
      [type |-> num, correct |-> PyNum(11310, 100), score |-> 2,
       tolerance |-> PyNum(566, 100)],
      [type |-> num, correct |-> PyNum(11310, 100), score |-> 1,
       tolerance |-> PyNone],
      [type |-> num, correct |-> PyNum(11310, 100), score |-> 2,
       tolerance |-> CellNaN],
      [type |-> num, correct |-> PyNum(11310, 100), score |-> 1,
       tolerance |-> NpNan] }

GradeAnswers ==
    { PyStr(<<"b">>), PyStr(<<>>), PyStr(<<"a", "b", "c">>),
      PyStr(<<"0", ".", "0", "7">>), PyStr(<<"1", "1", "8", ".", "7", "6">>),
      PyStr(<<"1", "1", "3", ".", "1">>) }

BankOf(kinds) ==
    [i \in 1..Len(kinds) |->
        [variant |-> 1, qnum |-> i, type |-> kinds[i].type,
         options |-> <<"A", "B", "C", "D">>, correct |-> kinds[i].correct,
         score |-> kinds[i].score, topic |-> topics[((i - 1) % Len(topics)) + 1],
         difficulty |-> difficulties[(i % 3) + 1],
         tolerance |-> kinds[i].tolerance]]

Keys(bank) == {<<bank[i].variant, bank[i].qnum>> : i \in 1..Len(bank)}

InitGrade ==
    /\ started = FALSE
    /\ submitted = FALSE
    /\ start_time = NoTime
    /\ active_variant = 1
    /\ v = 1
    /\ now = 0
    /\ results = NoResults
    /\ warned = FALSE
    /\ last = "load"
    /\ picked = {}
    /\ up = NoUpload
    /\ load_error = "none"
    /\ uncaught = FALSE
    /\ \E n \in 1..MaxRows : \E kinds \in [1..n -> RowKinds] :
           bank_df = BankOf(kinds)
    /\ \E ks \in SUBSET Keys(bank_df) : answers \in [ks -> GradeAnswers]

GradeExam ==
    /\ ~results.shown
    /\ results' = Shown(grade_exam(bank_df, answers))
    /\ last' = "grade"
    /\ UNCHANGED <<started, submitted, start_time, answers, active_variant, v,
                   now, bank_df, warned, picked, up, load_error, uncaught>>

NextGrade == GradeExam

SpecGrade == InitGrade /\ [][NextGrade]_vars

\* ------------------------------------------------------------------------
\* The bank loader on its own: a file is put into the uploader or taken
\* out of it, and the sidebar runs
\* ------------------------------------------------------------------------
FileNames ==
    { <<"b", ".", "c", "s", "v">>, <<"B", ".", "C", "S", "V">>,
      <<"b", ".", "j", "s", "o", "n">>, <<"b", ".", "t", "x", "t">> }

Cells == { PyNum(1, 1), PyNum(5, 2), PyStr(<<"2">>), PyStr(<<"x">>), CellNaN }

AllRequired == {required[i] : i \in 1..Len(required)}

\* every required column, all but one of them, or none
ColumnSets == {AllRequired, {}} \cup {AllRequired \ {c} : c \in AllRequired}

Uploads ==
    [present : {TRUE}, name : FileNames, parses : BOOLEAN,
     columns : ColumnSets,
     variant : Cells, qnum : {PyNum(1, 1), PyStr(<<"x">>)}]

Loaded(upload, out) ==
    /\ up' = upload
    /\ bank_df' = out.bank
    /\ load_error' = out.error
    /\ uncaught' = out.uncaught
    /\ last' = "load"
    /\ UNCHANGED <<started, submitted, start_time, answers, active_variant, v,
                   now, results, warned, picked>>

UploadFile ==
    \E upload \in Uploads :
        /\ upload # up
        /\ Loaded(upload, Sidebar(load_bank_from_upload(upload)))

RemoveFile ==
    /\ up.present
    /\ Loaded(NoUpload, Sidebar(load_bank_from_upload(NoUpload)))

NextLoad == UploadFile \/ RemoveFile

SpecLoad == Init /\ [][NextLoad]_vars

\* ------------------------------------------------------------------------
\* Claims
\* ------------------------------------------------------------------------

\* C1: once the session is submitted, no interaction changes the answer map
\* while submitted stays true; the only step that changes the map of a
\* submitted session is a start/restart, which also clears submitted.
C1_SubmittedFreezesAnswers ==
    [][(submitted /\ answers' # answers) => (last' = "start" /\ ~submitted')]_vars

\* C1 witness: a run caused by the picker on an already submitted session
\* (the run itself did not submit) that holds recorded answers.
C1_Witness ==
    /\ submitted /\ ~warned /\ last = "select"
    /\ DOMAIN answers # {}

\* the timer has run out at time t
Expired(t) == started /\ ~submitted /\ t - start_time >= ExamDuration

\* C2 as claimed: in any run of the script (the clock does not move within
\* a run) that finds the session started, not submitted and the time up,
\* the session becomes submitted and the answer map is left as it was.
C2_ExpiryAlwaysSubmits ==
    [][(now' = now /\ Expired(now)) => (submitted' /\ answers' = answers)]_vars

\* C2 as amended: the same for every run but the one a click on the
\* start/restart button causes, which starts the chosen variant afresh.
C2_ExpirySubmitsUnlessRestart ==
    [][(now' = now /\ Expired(now) /\ last' # "start")
           => (submitted' /\ answers' = answers)]_vars

\* C2 witness: the user entered an answer, and the run it caused found the
\* time up and submitted automatically.
C2_Witness ==
    /\ submitted /\ warned /\ last = "answer"
    /\ now - start_time >= ExamDuration

Absent(i) == <<bank_df[i].variant, bank_df[i].qnum>> \notin DOMAIN answers

RECURSIVE BankScore(_)
BankScore(i) == IF i = 0 THEN 0 ELSE BankScore(i - 1) + bank_df[i].score

RECURSIVE CorrectScore(_)
CorrectScore(i) ==
    IF i = 0 THEN 0
    ELSE CorrectScore(i - 1)
         + (IF results.details[i].is_correct THEN bank_df[i].score ELSE 0)

C4_ScoreConservation ==
    results.shown =>
        /\ results.max_total = BankScore(Len(bank_df))
        /\ results.total = CorrectScore(Len(bank_df))
        /\ results.total <= results.max_total

\* C4 witness: a graded bank with one row right and one row wrong.
C4_Witness ==
    /\ results.shown
    /\ 0 < results.total
    /\ results.total < results.max_total

\* The decimal a numeric answer denotes, as digits n over a power of ten d.
DecimalOfBody(body) ==
    LET ip == SubSeq(body, 1, FirstDot(body) - 1)
        fp == SubSeq(body, FirstDot(body) + 1, Len(body))
    IN  IF /\ Len(ip) + Len(fp) >= 1
           /\ \A i \in 1..Len(ip) : ip[i] \in Digits
           /\ \A i \in 1..Len(fp) : fp[i] \in Digits
        THEN [ok |-> TRUE, n |-> DigitsValue(ip \o fp), d |-> 10 ^ Len(fp)]
        ELSE [ok |-> FALSE, n |-> 0, d |-> 1]

DecimalOf(x) ==
    IF x.t # "str" THEN [ok |-> FALSE, n |-> 0, d |-> 1]
    ELSE DecimalOfBody(StripSpace(ReplaceComma(x.s)))

\* a tolerance that is absent or blank counts as 0
ToleranceOf(x) == IF x.t = "float" THEN x ELSE PyNum(0, 1)

AbsInt(n) == IF n < 0 THEN 0 - n ELSE n

\* |u - c| <= tol on the decimals themselves.
ExactWithin(u, c, tol) ==
    AbsInt(u.n * c.d - c.n * u.d) * tol.d <= tol.n * u.d * c.d

\* C5: a numeric row whose answer parses to a number u is graded correct
\* iff |u - correct| <= tolerance, the tolerance taken as 0 when it is None,
\* blank or a NaN cell; so u = correct + tolerance is correct, and so is
\* u = correct under a blank tolerance.
C5_NumericRule ==
    results.shown =>
        \A i \in 1..Len(bank_df) :
            (Lower(bank_df[i].type) = num /\ DecimalOf(results.details[i].your).ok)
                => (results.details[i].is_correct
                        <=> ExactWithin(DecimalOf(results.details[i].your),
                                        bank_df[i].correct,
                                        ToleranceOf(bank_df[i].tolerance)))

\* the import of this upload fails
ImportFails(upload) ==
    /\ upload.present
    /\ \/ ~EndsWith(Lower(upload.name), <<".", "c", "s", "v">>)
          /\ ~EndsWith(Lower(upload.name), <<".", "j", "s", "o", "n">>)
       \/ ~upload.parses
       \/ ~(AllRequired \subseteq upload.columns)
       \/ ~AsInt(upload.variant).ok
       \/ ~AsInt(upload.qnum).ok

\* C6: no run ends in an uncaught exception, and every failed import leaves
\* the demo bank in use.
C6_NoFailureCrashes ==
    /\ ~uncaught
    /\ ImportFails(up) => bank_df = generate_demo_bank

\* C7: while the session is started on the variant selected in the picker,
\* the start/restart button is on the page.
C7_RestartSameVariant ==
    (started /\ active_variant = v) => StartShown(Session, v)

\* C8: every key of the answer map is a key of the active variant.
C8_AnswersOfActiveVariant ==
    \A k \in DOMAIN answers : k[1] = active_variant

\* C8 witness: answers are being collected for variant 2, reached by a
\* restart, and the picker has just been moved to variant 1.
C8_Witness ==
    /\ started /\ ~submitted /\ active_variant = 2 /\ v = 1
    /\ last = "select"
    /\ DOMAIN answers # {}

\* C9: whenever results are shown, the rows graded are those of
\* active_variant.
C9_GradesActiveVariant ==
    results.shown =>
        \A i \in 1..Len(results.details) :
            results.details[i].variant = active_variant

\* C10: a multiple-choice question of the active variant for which the user
\* chose no option since the start has no value in the answer map, and
\* where results are shown its detail row is incorrect with score 0.
C10_UnansweredMcqNotCredited ==
    \A i \in 1..Len(bank_df) :
        (/\ started
         /\ bank_df[i].variant = active_variant
         /\ Lower(bank_df[i].type) = mcq
         /\ <<bank_df[i].variant, bank_df[i].qnum>> \notin picked)
            => /\ Absent(i)
               /\ \A j \in 1..Len(results.details) :
                      results.details[j].qnum = bank_df[i].qnum
                      /\ results.details[j].variant = bank_df[i].variant
                          => /\ ~results.details[j].is_correct
                             /\ results.details[j].score = 0

====
